---- MODULE Spec2Model ----
(***************************************************************************)
(* Model of ndar_uploader.py: the transform of the two tab-separated       *)
(* files into a project / sessions / acquisitions tree, and the            *)
(* sequential upload of that tree over HTTP.                               *)
(*                                                                         *)
(* Python strings are sequences of one-character strings; None is the      *)
(* one-element sequence NoneVal, which no string equals.                   *)
(***************************************************************************)
EXTENDS Integers, Sequences, FiniteSets, TLC

VARIABLES
    subjects_file,  \* ndar_aggregate.txt: whether it opens, and its data rows (the header row is implicit)
    images_file,    \* image03.txt: the same
    pc,             \* position of main() (or of the function under test)
    sess_dict,      \* subjectkey -> session
    acqs_dict,      \* subjectkey -> sequence of acquisitions
    requests,       \* history: every HTTP request sent, with the answer it got
    proj_id,        \* main: proj_id
    ses_id,         \* main: ses_id
    remaining,      \* keys sess_dict.iteritems() has not yielded yet
    subj,           \* main: subj
    idx,            \* position of "for acq in acqs_dict[subj]"
    printed,        \* what "print proj_id" wrote
    error,          \* the exception that ended the run, or NoError
    arg,            \* argument of the function under test
    ret             \* its result

vars == <<subjects_file, images_file, pc, sess_dict, acqs_dict, requests, proj_id,
          ses_id, remaining, subj, idx, printed, error, arg, ret>>

\* ---------------------------------------------------------------- bounds

MaxSubjectRows == 3
MaxImageRows == 3
MaxMonths == 40
MaxPathLen == 5

\* ---------------------------------------------------------------- values

NoneVal == <<"<None>">>
Nothing == "<nothing>"
NoError == "<no error>"
NoId == "<no _id>"
EmptyMap == [k \in {} |-> <<>>]

\* Python truthiness of a string-or-None
Truthy(v) == v # NoneVal /\ v # <<>>

Max(S) == CHOOSE x \in S : \A y \in S : y <= x

Min(S) == CHOOSE x \in S : \A y \in S : x <= y

\* ---------------------------------------------------------------- strings

Digits == <<"0", "1", "2", "3", "4", "5", "6", "7", "8", "9">>

IsDigit(c) == \E d \in 1..10 : Digits[d] = c

DigitVal(c) == (CHOOSE d \in 1..10 : Digits[d] = c) - 1

IsSpace(c) == c = " "

RECURSIVE LStrip(_)
LStrip(s) == IF s # <<>> /\ IsSpace(Head(s)) THEN LStrip(Tail(s)) ELSE s

RECURSIVE RStrip(_)
RStrip(s) ==
    IF s # <<>> /\ IsSpace(s[Len(s)]) THEN RStrip(SubSeq(s, 1, Len(s) - 1)) ELSE s

\* the digits of s read in base 10
RECURSIVE DigitsVal(_)
DigitsVal(s) ==
    IF s = <<>> THEN 0
    ELSE 10 * DigitsVal(SubSeq(s, 1, Len(s) - 1)) + DigitVal(s[Len(s)])

AllDigits(s) == s # <<>> /\ \A i \in 1..Len(s) : IsDigit(s[i])

IsSign(c) == c = "+" \/ c = "-"

\* int(s): surrounding blanks, an optional sign, then one or more digits
IntBody(s) == RStrip(LStrip(s))

IntUnsigned(s) == IF IntBody(s) # <<>> /\ IsSign(Head(IntBody(s))) THEN Tail(IntBody(s)) ELSE IntBody(s)

\* does int(s) raise ValueError?
IntRaises(s) == ~AllDigits(IntUnsigned(s))

int(s) ==
    IF IntBody(s) # <<>> /\ Head(IntBody(s)) = "-" THEN 0 - DigitsVal(IntUnsigned(s))
    ELSE DigitsVal(IntUnsigned(s))

\* str.lower() on the letters the inputs use
LowerChar(c) ==
    CASE c = "M" -> "m"
      [] c = "F" -> "f"
      [] OTHER -> c

lower(s) == [i \in 1..Len(s) |-> LowerChar(s[i])]

\* s.split(sep): the pieces of s between the occurrences of the character sep
RECURSIVE SplitFrom(_, _, _)
SplitFrom(s, sep, piece) ==
    IF s = <<>> THEN <<piece>>
    ELSE IF Head(s) = sep THEN <<piece>> \o SplitFrom(Tail(s), sep, <<>>)
    ELSE SplitFrom(Tail(s), sep, Append(piece, Head(s)))

split(s, sep) == SplitFrom(s, sep, <<>>)

\* ---------------------------------------------------------------- Record Transformer

seconds_in_a_month == 2629800

AgeRaises(age_in_months) == Truthy(age_in_months) /\ IntRaises(age_in_months)

\* mutant: a month of 30 days
AgeInSecondsThirtyDays(age_in_months) ==
    IF ~Truthy(age_in_months) THEN 0
    ELSE 2592000 * int(age_in_months)

age_in_seconds(age_in_months) ==
    IF ~Truthy(age_in_months) THEN 0
    ELSE seconds_in_a_month * int(age_in_months)

\* scitran_session raises: None.lower() is an AttributeError, int() a ValueError
SessionRaises(ndar_subject) ==
    ndar_subject.gender = NoneVal \/ AgeRaises(ndar_subject.interview_age)

SessionError(ndar_subject) ==
    IF ndar_subject.gender = NoneVal THEN "AttributeError" ELSE "ValueError"

scitran_session(ndar_subject) ==
    [label |-> ndar_subject.subjectkey,
     subject |-> [sex |-> lower(ndar_subject.gender),
                  age |-> age_in_seconds(ndar_subject.interview_age),
                  code |-> ndar_subject.subjectkey,
                  metadata |-> ndar_subject]]

\* mutant: rsplit('.', 1)[0], which removes the last suffix only
AcquisitionLabelLastSuffix(image_file) ==
    LET name == split(image_file, "/")[Len(split(image_file, "/"))]
        dots == {i \in 1..Len(name) : name[i] = "."}
    IN  IF dots = {} THEN name ELSE SubSeq(name, 1, Max(dots) - 1)

AcquisitionLabel(image_file) == split(split(image_file, "/")[Len(split(image_file, "/"))], ".")[1]

AcquisitionRaises(ndar_image) == ndar_image.image_file = NoneVal

scitran_acquisition(ndar_image) ==
    [label |-> AcquisitionLabel(ndar_image.image_file),
     metadata |-> ndar_image]

\* ---------------------------------------------------------------- inputs

Keys == {"S1", "S2"}

SubjectRow(k, gender, age) == [subjectkey |-> k, gender |-> gender, interview_age |-> age]

\* the data rows a subjects file is made of: two that differ for S1, one of
\* them without an age, and for S2 one well-formed and one with a malformed age
SubjectRows ==
    {SubjectRow("S1", <<"M">>, <<"2", "4">>),
     SubjectRow("S1", <<"F">>, <<>>),
     SubjectRow("S2", <<"M">>, <<"2", "4">>),
     SubjectRow("S2", <<"M">>, <<"x">>)}

ImageFiles == {<<"/", "d", "/", "a", ".", "n", ".", "g">>}

ImageRows == {[subjectkey |-> k, image_file |-> f] : k \in Keys, f \in ImageFiles}

SeqsUpTo(S, n) == UNION {[1..m -> S] : m \in 0..n}

\* a file that cannot be opened, or the data rows after its header row
Files(rows, n) ==
    {[exists |-> FALSE, rows |-> <<>>]} \cup {[exists |-> TRUE, rows |-> r] : r \in SeqsUpTo(rows, n)}

\* ---------------------------------------------------------------- Tree Builder

Put(m, k, v) == [x \in DOMAIN m \cup {k} |-> IF x = k THEN v ELSE m[x]]

\* dict.get(k, []) / a falsy dict.get(k)
Get(m, k) == IF k \in DOMAIN m THEN m[k] ELSE <<>>

generate_project(project_label, group) == [label |-> project_label, group |-> group]

\* the rows the "for row in rows" loop sees: rows.next() has consumed the
\* header and the first data row before the loop starts
LoopRows(rows) == Tail(rows)

\* the loop of generate_sessions over the rows it sees
RECURSIVE SessionsOf(_)
SessionsOf(rows) ==
    IF Len(rows) = 0 THEN EmptyMap
    ELSE Put(SessionsOf(SubSeq(rows, 1, Len(rows) - 1)),
             rows[Len(rows)].subjectkey,
             scitran_session(rows[Len(rows)]))

\* the loop of generate_acquisitions over the rows it sees
RECURSIVE AcquisitionsOf(_)
AcquisitionsOf(rows) ==
    IF Len(rows) = 0 THEN EmptyMap
    ELSE LET acqs == AcquisitionsOf(SubSeq(rows, 1, Len(rows) - 1))
             row == rows[Len(rows)]
         IN  Put(acqs, row.subjectkey,
                 Get(acqs, row.subjectkey) \o <<scitran_acquisition(row)>>)

Abort(exc) ==
    /\ pc' = "aborted"
    /\ error' = exc

generate_sessions ==
    /\ pc = "generate_sessions"
    /\ IF ~subjects_file.exists THEN
           Abort("IOError") /\ UNCHANGED sess_dict
       ELSE IF Len(subjects_file.rows) = 0 THEN
           Abort("StopIteration") /\ UNCHANGED sess_dict
       ELSE LET rows == LoopRows(subjects_file.rows)
                bad == {i \in 1..Len(rows) : SessionRaises(rows[i])}
            IN  IF bad # {} THEN
                    /\ Abort(SessionError(rows[CHOOSE i \in bad : \A j \in bad : i <= j]))
                    /\ UNCHANGED sess_dict
                ELSE
                    /\ sess_dict' = SessionsOf(rows)
                    /\ pc' = "generate_acquisitions"
                    /\ UNCHANGED error
    /\ UNCHANGED <<subjects_file, images_file, acqs_dict, requests, proj_id, ses_id,
                   remaining, subj, idx, printed, arg, ret>>

generate_acquisitions ==
    /\ pc = "generate_acquisitions"
    /\ IF ~images_file.exists THEN
           Abort("IOError") /\ UNCHANGED acqs_dict
       ELSE IF Len(images_file.rows) = 0 THEN
           Abort("StopIteration") /\ UNCHANGED acqs_dict
       ELSE LET rows == LoopRows(images_file.rows)
            IN  IF \E i \in 1..Len(rows) : AcquisitionRaises(rows[i]) THEN
                    Abort("AttributeError") /\ UNCHANGED acqs_dict
                ELSE
                    /\ acqs_dict' = AcquisitionsOf(rows)
                    /\ pc' = "get_group"
                    /\ UNCHANGED error
    /\ UNCHANGED <<subjects_file, images_file, sess_dict, requests, proj_id, ses_id,
                   remaining, subj, idx, printed, arg, ret>>

\* ---------------------------------------------------------------- Upload Client

OK == 200
NOT_FOUND == 404

Statuses == {OK, NOT_FOUND, 500}

Ids == {"id1", "id2"}

\* what the service may answer: a status and, in a 200 body, an _id or none
Responses ==
    {[status |-> OK, id |-> i] : i \in Ids \cup {NoId}}
        \cup {[status |-> s, id |-> NoId] : s \in Statuses \ {OK}}

\* the history of requests: what was sent, the status of the answer, and the
\* _id of the answer where the caller keeps it
Sent(method, path, payload, status, id) ==
    requests' = Append(requests, [method |-> method, path |-> path, payload |-> payload,
                                  status |-> status, id |-> id])

\* mutant: the status of the answer is not looked at
CreateRaisesOnBodyOnly(resp) == resp.status = OK /\ resp.id = NoId

\* create(): a non-200 answer raises Exception(r.reason), a body without _id a KeyError
CreateRaises(resp) == resp.status # OK \/ resp.id = NoId

CreateError(resp) == IF resp.status # OK THEN "Exception" ELSE "KeyError"

\* mutant: the group is posted even when the GET found it
AfterGroupGetAlwaysPost(status) ==
    IF status = OK \/ status = NOT_FOUND THEN "post_group" ELSE "aborted"

\* where get_or_create_group goes after the GET
AfterGroupGet(status) ==
    IF status = OK THEN "create_project"
    ELSE IF status = NOT_FOUND THEN "post_group"
    ELSE "aborted"

get_group ==
    /\ pc = "get_group"
    /\ \E resp \in {r \in Responses : r.id = NoId} :
        /\ Sent("GET", "/groups/ndar", EmptyMap, resp.status, NoId)
        /\ pc' = AfterGroupGet(resp.status)
        /\ error' = IF AfterGroupGet(resp.status) = "aborted" THEN "Exception" ELSE error
    /\ UNCHANGED <<subjects_file, images_file, sess_dict, acqs_dict, proj_id, ses_id,
                   remaining, subj, idx, printed, arg, ret>>

post_group ==
    /\ pc = "post_group"
    /\ \E resp \in {r \in Responses : r.id = NoId} :
        /\ Sent("POST", "/groups", [_id |-> "ndar"], resp.status, NoId)
        /\ IF resp.status # OK THEN Abort("Exception")
           ELSE pc' = "create_project" /\ UNCHANGED error
    /\ UNCHANGED <<subjects_file, images_file, sess_dict, acqs_dict, proj_id, ses_id,
                   remaining, subj, idx, printed, arg, ret>>

\* ---------------------------------------------------------------- Orchestrator

With(d, field, v) == [f \in DOMAIN d \cup {field} |-> IF f = field THEN v ELSE d[f]]

SessionPayload(sess, id) == With(sess, "project", id)

\* mutant: the acquisition gets the project's id
AcquisitionPayloadOfProject(acq, id) == With(acq, "session", proj_id)

AcquisitionPayload(acq, id) == With(acq, "session", id)

\* mutant: no test at all
AnySubject(acqs, k) == TRUE

\* mutant: a single acquisition does not count
HasSeveralAcquisitions(acqs, k) == Len(Get(acqs, k)) > 1

\* "if acqs_dict.get(subj):"
HasAcquisitions(acqs, k) == Get(acqs, k) # <<>>

create_project ==
    /\ pc = "create_project"
    /\ \E resp \in Responses :
        /\ Sent("POST", "/projects", generate_project("folder", "ndar"), resp.status, resp.id)
        /\ IF CreateRaises(resp) THEN
               Abort(CreateError(resp)) /\ UNCHANGED <<proj_id, remaining>>
           ELSE
               /\ proj_id' = resp.id
               /\ remaining' = DOMAIN sess_dict
               /\ pc' = "next_subject"
               /\ UNCHANGED error
    /\ UNCHANGED <<subjects_file, images_file, sess_dict, acqs_dict, ses_id,
                   subj, idx, printed, arg, ret>>

\* one turn of "for subj, sess in sess_dict.iteritems()", up to the "if"
next_subject ==
    /\ pc = "next_subject"
    /\ \E k \in remaining :
        /\ remaining' = remaining \ {k}
        /\ subj' = k
        /\ sess_dict' = [sess_dict EXCEPT ![k] = SessionPayload(sess_dict[k], proj_id)]
        /\ pc' = IF HasAcquisitions(acqs_dict, k) THEN "create_session" ELSE "next_subject"
    /\ UNCHANGED <<subjects_file, images_file, acqs_dict, requests, proj_id, ses_id,
                   idx, printed, error, arg, ret>>

create_session ==
    /\ pc = "create_session"
    /\ \E resp \in Responses :
        /\ Sent("POST", "/sessions", sess_dict[subj], resp.status, resp.id)
        /\ IF CreateRaises(resp) THEN
               Abort(CreateError(resp)) /\ UNCHANGED <<ses_id, idx>>
           ELSE IF subj \notin DOMAIN acqs_dict THEN
               Abort("KeyError") /\ ses_id' = resp.id /\ UNCHANGED idx
           ELSE
               /\ ses_id' = resp.id
               /\ idx' = 1
               /\ pc' = IF Len(acqs_dict[subj]) = 0 THEN "next_subject" ELSE "create_acquisition"
               /\ UNCHANGED error
    /\ UNCHANGED <<subjects_file, images_file, sess_dict, acqs_dict, proj_id,
                   remaining, subj, printed, arg, ret>>

\* one turn of "for acq in acqs_dict[subj]"
create_acquisition ==
    /\ pc = "create_acquisition"
    /\ LET acq == AcquisitionPayload(acqs_dict[subj][idx], ses_id)
       IN  /\ acqs_dict' = [acqs_dict EXCEPT ![subj][idx] = acq]
           /\ \E resp \in Responses :
               /\ Sent("POST", "/acquisitions", acq, resp.status, NoId)
               /\ IF CreateRaises(resp) THEN
                      Abort(CreateError(resp)) /\ UNCHANGED idx
                  ELSE
                      /\ idx' = idx + 1
                      /\ pc' = IF idx = Len(acqs_dict[subj]) THEN "next_subject"
                               ELSE "create_acquisition"
                      /\ UNCHANGED error
    /\ UNCHANGED <<subjects_file, images_file, sess_dict, proj_id, ses_id,
                   remaining, subj, printed, arg, ret>>

print_proj_id ==
    /\ pc = "next_subject"
    /\ remaining = {}
    /\ printed' = proj_id
    /\ pc' = "done"
    /\ UNCHANGED <<subjects_file, images_file, sess_dict, acqs_dict, requests, proj_id,
                   ses_id, remaining, subj, idx, error, arg, ret>>

Init ==
    /\ subjects_file \in Files(SubjectRows, MaxSubjectRows)
    /\ images_file \in Files(ImageRows, MaxImageRows)
    /\ pc = "generate_sessions"
    /\ sess_dict = EmptyMap
    /\ acqs_dict = EmptyMap
    /\ requests = <<>>
    /\ proj_id = Nothing
    /\ ses_id = Nothing
    /\ remaining = {}
    /\ subj = Nothing
    /\ idx = 0
    /\ printed = Nothing
    /\ error = NoError
    /\ arg = NoneVal
    /\ ret = 0

Next ==
    \/ generate_sessions
    \/ generate_acquisitions
    \/ get_group
    \/ post_group
    \/ create_project
    \/ next_subject
    \/ create_session
    \/ create_acquisition
    \/ print_proj_id

Spec == Init /\ [][Next]_vars

\* ---------------------------------------------------------------- the Record Transformer on its own

NoFile == [exists |-> FALSE, rows |-> <<>>]

\* main() is not running: only arg, ret, pc and error are in use
Idle ==
    /\ subjects_file = NoFile
    /\ images_file = NoFile
    /\ sess_dict = EmptyMap
    /\ acqs_dict = EmptyMap
    /\ requests = <<>>
    /\ proj_id = Nothing
    /\ ses_id = Nothing
    /\ remaining = {}
    /\ subj = Nothing
    /\ idx = 0
    /\ printed = Nothing
    /\ error = NoError
    /\ ret = 0

UnchangedMain ==
    UNCHANGED <<subjects_file, images_file, sess_dict, acqs_dict, requests, proj_id,
                ses_id, remaining, subj, idx, printed, arg>>

\* str(n) for n >= 0
RECURSIVE DecStr(_)
DecStr(n) ==
    IF n < 10 THEN <<Digits[n + 1]>>
    ELSE Append(DecStr(n \div 10), Digits[(n % 10) + 1])

Formats == {"plain", "plus", "minus", "zero", "blank"}

\* a way of writing the integer FormatValue(n, f) that int() accepts
Format(n, f) ==
    CASE f = "plain" -> DecStr(n)
      [] f = "plus" -> <<"+">> \o DecStr(n)
      [] f = "minus" -> <<"-">> \o DecStr(n)
      [] f = "zero" -> <<"0">> \o DecStr(n)
      [] f = "blank" -> <<" ">> \o DecStr(n) \o <<" ">>

FormatValue(n, f) == IF f = "minus" THEN 0 - n ELSE n

IntegerStrings == {Format(n, f) : n \in 0..MaxMonths, f \in Formats}

Malformed == {<<"x">>, <<"2", "x">>, <<" ">>, <<"-">>, <<"2", ".", "5">>}

AgeInputs == {NoneVal, <<>>} \cup IntegerStrings \cup Malformed

InitAge ==
    /\ arg \in AgeInputs
    /\ pc = "call"
    /\ Idle

call_age_in_seconds ==
    /\ pc = "call"
    /\ IF AgeRaises(arg) THEN Abort("ValueError") /\ UNCHANGED ret
       ELSE /\ ret' = age_in_seconds(arg)
            /\ pc' = "returned"
            /\ UNCHANGED error
    /\ UnchangedMain

RowWithAge(age) == [subjectkey |-> "S1", gender |-> <<"M">>, interview_age |-> age]

call_scitran_session ==
    /\ pc = "call"
    /\ IF SessionRaises(RowWithAge(arg)) THEN
           Abort(SessionError(RowWithAge(arg))) /\ UNCHANGED ret
       ELSE /\ ret' = scitran_session(RowWithAge(arg))
            /\ pc' = "returned_session"
            /\ UNCHANGED error
    /\ UnchangedMain

NextAge ==
    \/ call_age_in_seconds
    \/ call_scitran_session

SpecAge == InitAge /\ [][NextAge]_vars

PathChars == {"a", "/", "."}

InitLabel ==
    /\ arg \in SeqsUpTo(PathChars, MaxPathLen) \cup {NoneVal}
    /\ pc = "call"
    /\ Idle

RowWithImage(image_file) == [subjectkey |-> "S1", image_file |-> image_file]

call_scitran_acquisition ==
    /\ pc = "call"
    /\ IF AcquisitionRaises(RowWithImage(arg)) THEN
           Abort("AttributeError") /\ UNCHANGED ret
       ELSE /\ ret' = scitran_acquisition(RowWithImage(arg))
            /\ pc' = "returned"
            /\ UNCHANGED error
    /\ UnchangedMain

NextLabel == call_scitran_acquisition

SpecLabel == InitLabel /\ [][NextLabel]_vars

\* ---------------------------------------------------------------- properties

Sessions == "/sessions"
Acquisitions == "/acquisitions"

Posts(path) ==
    {i \in 1..Len(requests) : requests[i].method = "POST" /\ requests[i].path = path}

Gets == {i \in 1..Len(requests) : requests[i].method = "GET"}

SessionPostsFor(k) == {i \in Posts(Sessions) : requests[i].payload.label = k}

AcquisitionPostsFor(k) ==
    {i \in Posts(Acquisitions) : requests[i].payload.metadata.subjectkey = k}

RowsWithKey(file, k) == {i \in 1..Len(file.rows) : file.rows[i].subjectkey = k}

\* the request got a failure status
Failed(i) ==
    IF requests[i].method = "GET" THEN requests[i].status \notin {200, 404}
    ELSE requests[i].status # 200

\* C1 (as claimed): after a full run in which every request succeeded, each
\* subject key with a data row in both files got exactly one session POST and
\* one acquisition POST per image data row, the first data rows included; the
\* other keys got none.
C1_EveryDataRowUploaded ==
    pc = "done" =>
        \A k \in Keys :
            LET shared == RowsWithKey(subjects_file, k) # {} /\ RowsWithKey(images_file, k) # {}
            IN  /\ Cardinality(SessionPostsFor(k)) = IF shared THEN 1 ELSE 0
                /\ Cardinality(AcquisitionPostsFor(k)) =
                       IF shared THEN Cardinality(RowsWithKey(images_file, k)) ELSE 0

\* C2 (as claimed): after a run in which every request succeeded, acquisitions
\* were posted for key k iff k has a non-empty sequence in acqs_dict.
C2_UploadedIffHasAcquisitions ==
    pc = "done" =>
        \A k \in Keys : AcquisitionPostsFor(k) # {} <=> Get(acqs_dict, k) # <<>>

\* C2 (amended): after a run in which every request succeeded, acquisitions
\* were posted for key k iff k is a key of sess_dict and has a non-empty
\* sequence in acqs_dict.
C2_UploadedIffSessionAndAcquisitions ==
    pc = "done" =>
        \A k \in Keys :
            AcquisitionPostsFor(k) # {} <=>
                (k \in DOMAIN sess_dict /\ Get(acqs_dict, k) # <<>>)

\* a finished run that uploaded acquisitions and left out those of a key
\* that has acquisitions but no session
C2_Witness ==
    /\ pc = "done"
    /\ \E k \in Keys : AcquisitionPostsFor(k) # {}
    /\ \E k \in Keys : Get(acqs_dict, k) # <<>> /\ k \notin DOMAIN sess_dict

\* C3: at every point of every run, each session POST sent so far is for a
\* key of sess_dict that has at least one acquisition in acqs_dict.
C3_NoSessionWithoutAcquisitions ==
    \A i \in Posts(Sessions) :
        /\ requests[i].payload.label \in DOMAIN sess_dict
        /\ Get(acqs_dict, requests[i].payload.label) # <<>>

\* a finished run that posted a session and skipped a subject without acquisitions
C3_Witness ==
    /\ pc = "done"
    /\ Posts(Sessions) # {}
    /\ \E k \in DOMAIN sess_dict : Get(acqs_dict, k) = <<>>

\* C4: get_or_create_group sends one GET and no POST when the GET answers 200;
\* one GET then one POST to /groups when it answers 404, raising iff that POST
\* is not answered 200; one GET, no POST and an exception for any other answer.
C4_EnsureGroupProtocol ==
    /\ pc \in {"generate_sessions", "generate_acquisitions", "get_group"} => requests = <<>>
    /\ requests # <<>> =>
        /\ Gets = {1}
        /\ requests[1].path = "/groups/ndar"
        /\ CASE requests[1].status = 200 ->
                    /\ Posts("/groups") = {}
                    /\ Len(requests) = 1 => pc = "create_project" /\ error = NoError
             [] requests[1].status = 404 ->
                    /\ pc = "post_group" => Len(requests) = 1 /\ error = NoError
                    /\ pc # "post_group" => Posts("/groups") = {2}
                    /\ Len(requests) = 2 =>
                           IF requests[2].status = 200
                           THEN pc = "create_project" /\ error = NoError
                           ELSE pc = "aborted" /\ error = "Exception"
             [] OTHER ->
                    /\ Len(requests) = 1
                    /\ pc = "aborted"
                    /\ error = "Exception"

\* the group was missing and has just been created
C4_Witness ==
    /\ Len(requests) = 2
    /\ requests[1].status = 404
    /\ requests[2].status = 200
    /\ pc = "create_project"

\* C5: a request that got a failure status is the last request of the run,
\* the run has aborted and nothing is printed; after a failed project POST
\* there is no session or acquisition POST; nothing is sent twice.
C5_FailureAborts ==
    /\ \A i \in 1..Len(requests) :
           Failed(i) => i = Len(requests) /\ pc = "aborted" /\ printed = Nothing
    /\ \A i \in Posts("/projects") :
           requests[i].status # 200 => Posts(Sessions) = {} /\ Posts(Acquisitions) = {}
    /\ Cardinality(Gets) <= 1
    /\ Cardinality(Posts("/groups")) <= 1
    /\ Cardinality(Posts("/projects")) <= 1
    /\ \A k \in Keys :
           /\ Cardinality(SessionPostsFor(k)) <= 1
           /\ Cardinality(AcquisitionPostsFor(k)) <= Len(Get(acqs_dict, k))

\* an acquisition POST failed after the session before it was created
C5_Witness ==
    /\ pc = "aborted"
    /\ Len(requests) >= 4
    /\ requests[Len(requests)].path = Acquisitions
    /\ requests[Len(requests)].status = 500
    /\ Posts(Sessions) # {}

\* the filename portion of a path: what follows its last "/"
FilenameOf(path) ==
    LET slashes == {i \in 1..Len(path) : path[i] = "/"}
    IN  IF slashes = {} THEN path ELSE SubSeq(path, Max(slashes) + 1, Len(path))

DotsOf(name) == {i \in 1..Len(name) : name[i] = "."}

C7_LastRowWins ==
    pc = "generate_acquisitions" =>
        \A k \in Keys :
            RowsWithKey(subjects_file, k) # {} =>
                /\ k \in DOMAIN sess_dict
                /\ sess_dict[k] =
                       scitran_session(subjects_file.rows[Max(RowsWithKey(subjects_file, k))])

\* C8: None and "" give 0 and raise nothing, also as the interview_age of a
\* subject row; every way of writing an integer v gives 2629800 * v.
C8_AgeInSecondsExact ==
    /\ arg \in {NoneVal, <<>>} =>
        /\ pc # "aborted"
        /\ pc = "returned" => ret = 0
        /\ pc = "returned_session" => ret.subject.age = 0
    /\ \A n \in 0..MaxMonths, f \in Formats :
        arg = Format(n, f) =>
            /\ pc # "aborted"
            /\ pc = "returned" => ret = 2629800 * FormatValue(n, f)
            /\ pc = "returned_session" => ret.subject.age = 2629800 * FormatValue(n, f)

\* 24 months are 63115200 seconds
C8_Witness ==
    /\ pc = "returned"
    /\ arg = <<"2", "4">>
    /\ ret = 63115200

\* C9: every session POST comes after a project POST answered 200 and carries
\* the _id of that answer; every acquisition POST comes after a session POST
\* answered 200, the latest session POST is for the same subject key and the
\* acquisition carries the _id of that answer.
C9_ParentIdsThreaded ==
    /\ \A i \in Posts(Sessions) :
        \E j \in Posts("/projects") :
            /\ j < i
            /\ requests[j].status = 200
            /\ requests[i].payload.project = requests[j].id
    /\ \A i \in Posts(Acquisitions) :
        LET before == {j \in Posts(Sessions) : j < i}
        IN  /\ before # {}
            /\ requests[Max(before)].status = 200
            /\ requests[Max(before)].payload.label = requests[i].payload.metadata.subjectkey
            /\ requests[i].payload.session = requests[Max(before)].id

\* two subjects were uploaded, their sessions got different ids, and the
\* project got the id the first session did not get
C9_Witness ==
    /\ pc = "done"
    /\ Cardinality(Posts(Sessions)) = 2
    /\ Cardinality(Posts(Acquisitions)) = 2
    /\ requests[Min(Posts(Sessions))].id # requests[Max(Posts(Sessions))].id
    /\ requests[Min(Posts(Sessions))].id # proj_id

\* C10 (as claimed): a subjects or images file that cannot be read, or a
\* malformed interview_age in any data row of the subjects file, leaves the
\* run with no HTTP request sent; and no request is sent before both
\* mappings are built.
C10_TreeBeforeTraffic ==
    /\ pc \in {"generate_sessions", "generate_acquisitions"} => requests = <<>>
    /\ ~subjects_file.exists \/ ~images_file.exists => requests = <<>>
    /\ (\E i \in 1..Len(subjects_file.rows) :
            AgeRaises(subjects_file.rows[i].interview_age)) => requests = <<>>

====
